---- MODULE Spec2Model ----
(***************************************************************************)
(* build_ical.py: a CSV listing of data releases is turned into a calendar *)
(* file, one event per release; optionally the CSV files of a folder are   *)
(* merged first.                                                           *)
(*                                                                         *)
(* A Python str is modelled as a sequence of tokens (TLA+ strings), so the *)
(* empty string is << >> and concatenation / str.format is \o.  A CSV row  *)
(* is a sequence of such texts.  Python indexes from 0: At(s, i) is s[i].  *)
(***************************************************************************)
EXTENDS Integers, Sequences, FiniteSets, TLC

\* Bounds of the model: data rows per CSV file, files per folder.
MaxRows == 3
MaxFiles == 3

(***************************************************************************)
(* Generic helpers for Python lists and strings                            *)
(***************************************************************************)
At(s, i) == s[i + 1]

\* A variant that keeps the first entry: s[0:].
Slice_keep_all(s) == s

\* s[1:]; the slice of an empty list is the empty list.
Slice1(s) == IF Len(s) = 0 THEN << >> ELSE Tail(s)

\* isinstance(value, str): every field csv.reader yields is a str.
IsStr(value) == value \in Seq(STRING)

\* Position of the first token of s equal to t, Len(s) + 1 when there is none.
FirstIdx(s, t) ==
  IF \E i \in 1..Len(s) : s[i] = t
  THEN CHOOSE i \in 1..Len(s) : s[i] = t /\ \A j \in 1..(i - 1) : s[j] # t
  ELSE Len(s) + 1

\* Position of the last token of s equal to t, 0 when there is none.
LastIdx(s, t) ==
  IF \E i \in 1..Len(s) : s[i] = t
  THEN CHOOSE i \in 1..Len(s) : s[i] = t /\ \A j \in (i + 1)..Len(s) : s[j] # t
  ELSE 0

\* needle in hay, for Python strings.
Contains(hay, needle) ==
  \E i \in 0..(Len(hay) - Len(needle)) :
    SubSeq(hay, i + 1, i + Len(needle)) = needle

\* The outcome of a call: a value returned, or an exception raised.
Returned(v) == [exc |-> "none", msg |-> << >>, val |-> v]
Raised(e, m) == [exc |-> e, msg |-> m, val |-> << >>]

(***************************************************************************)
(* iso8601.parse_date, on the dashed forms YYYY, YYYY-MM, YYYY-MM-DD and   *)
(* YYYY-MM-DDThh:mm.  Missing month and day default to 1, a missing time   *)
(* to 00:00, the zone to UTC.  A text that does not match, or that names   *)
(* no calendar day, raises ParseError.                                     *)
(***************************************************************************)
Digits4 == ("2016" :> 2016) @@ ("2017" :> 2017)
Digits2 == ("00" :> 0) @@ ("01" :> 1) @@ ("02" :> 2) @@ ("10" :> 10) @@
           ("13" :> 13) @@ ("30" :> 30)

DaysIn(y, m) ==
  IF m = 2
  THEN (IF y % 4 = 0 /\ (y % 100 # 0 \/ y % 400 = 0) THEN 29 ELSE 28)
  ELSE IF m \in {4, 6, 9, 11} THEN 30 ELSE 31

parse_date(s) ==
  LET n == Len(s)
      matches ==
        /\ n \in {1, 3, 5, 9}
        /\ s[1] \in DOMAIN Digits4
        /\ n >= 3 => (s[2] = "-" /\ s[3] \in DOMAIN Digits2)
        /\ n >= 5 => (s[4] = "-" /\ s[5] \in DOMAIN Digits2)
        /\ n >= 9 => (/\ s[6] = "T" /\ s[7] \in DOMAIN Digits2
                      /\ s[8] = ":" /\ s[9] \in DOMAIN Digits2)
      y == Digits4[s[1]]
      m == IF n >= 3 THEN Digits2[s[3]] ELSE 1
      d == IF n >= 5 THEN Digits2[s[5]] ELSE 1
      h == IF n >= 9 THEN Digits2[s[7]] ELSE 0
      mi == IF n >= 9 THEN Digits2[s[9]] ELSE 0
  IN IF ~matches THEN Raised("ParseError", << >>)
     ELSE IF m \in 1..12 /\ d \in 1..DaysIn(y, m) /\ h \in 0..23 /\ mi \in 0..59
          THEN Returned([year |-> y, month |-> m, day |-> d,
                         hour |-> h, minute |-> mi, tz |-> "UTC"])
          ELSE Raised("ParseError", << >>)

\* icalendar.vDatetime wraps the datetime it is given.
vDatetime(dt) == [vDatetime |-> dt]

(***************************************************************************)
(* urllib.parse.urlparse on a text of tokens: an optional scheme token     *)
(* ("http:"), an optional "//" followed by the network location up to the  *)
(* first "/", and the path from that "/" on.  A network location with one  *)
(* square bracket and not the other raises ValueError.                     *)
(***************************************************************************)
Schemes == {"http:", "https:"}

HasToken(s, t) == \E i \in 1..Len(s) : s[i] = t

urlparse(value) ==
  LET split(scheme, rest) ==
        LET hasNetloc == Len(rest) >= 1 /\ rest[1] = "//"
            parts(netloc, path) ==
              IF hasNetloc /\ HasToken(netloc, "[") # HasToken(netloc, "]")
              THEN Raised("ValueError", <<"Invalid IPv6 URL">>)
              ELSE Returned([scheme |-> scheme, netloc |-> netloc,
                             path |-> path])
            at(after, cut) ==
              parts(SubSeq(after, 1, cut - 1), SubSeq(after, cut, Len(after)))
        IN IF hasNetloc
           THEN at(Tail(rest), FirstIdx(Tail(rest), "/"))
           ELSE at(rest, 1)
  IN IF Len(value) >= 1 /\ value[1] \in Schemes
     THEN split(value[1], Tail(value))
     ELSE split("", value)

\* A variant that enforces the check: an empty path is rejected.
is_url_strict(value) ==
  LET check(p) ==
        IF p.exc # "none" THEN p
        ELSE IF p.val.path # << >> THEN Returned("True")
        ELSE Raised("ValueError", <<"Not a URL">>)
  IN check(urlparse(value))

\* is_url: True when the path is not empty, None otherwise; it raises only
\* what urlparse raises.
is_url(value) ==
  LET check(p) ==
        IF p.exc # "none" THEN p
        ELSE IF p.val.path # << >> THEN Returned("True") ELSE Returned("None")
  IN check(urlparse(value))

(***************************************************************************)
(* The validated record types: Dataset and its Publisher, Distribution and *)
(* ContactPoint.  Each setter returns the stored value or raises.          *)
(***************************************************************************)
\* A variant that also rejects the empty text.
Dataset_title_nonempty(value) ==
  IF IsStr(value) /\ value # << >> THEN Returned(value)
  ELSE Raised("ValueError", <<"Not a string">>)

Dataset_title(value) ==
  IF IsStr(value) THEN Returned(value)
  ELSE Raised("ValueError", <<"Not a string">>)

Dataset_description(value) ==
  IF IsStr(value) THEN Returned(value)
  ELSE Raised("ValueError", <<"Not a string">>)

\* A variant without the except clause: ParseError is not turned into
\* ValueError.
Dataset_temporal_uncaught(values) ==
  LET pair(start, end) ==
        IF start.exc = "ParseError" \/ end.exc = "ParseError"
        THEN Raised("ParseError", << >>)
        ELSE Returned([start |-> vDatetime(start.val),
                       end |-> vDatetime(end.val)])
  IN pair(parse_date(values[1]), parse_date(values[2]))

\* values is the pair (start, end); both are parsed.
Dataset_temporal(values) ==
  LET pair(start, end) ==
        IF start.exc = "ParseError" \/ end.exc = "ParseError"
        THEN Raised("ValueError",
                    <<"One of the date strings ">> \o values[1] \o <<" or ">>
                      \o values[2] \o <<" is not parsable">>)
        ELSE Returned([start |-> vDatetime(start.val),
                       end |-> vDatetime(end.val)])
  IN pair(parse_date(values[1]), parse_date(values[2]))

Publisher(values) == Returned([name |-> values.name])

Distribution_downloadURL(value) ==
  LET set(checked) == IF checked.exc # "none" THEN checked ELSE Returned(value)
  IN set(is_url(value))

Distribution(values) ==
  LET init(url) ==
        IF url.exc # "none" THEN url ELSE Returned([downloadURL |-> url.val])
  IN init(Distribution_downloadURL(values.downloadURL))

\* A variant that stores the name in both fields.
ContactPoint_name_twice(values) ==
  Returned([fn |-> values.fn, hasEmail |-> values.fn])

ContactPoint(values) ==
  Returned([fn |-> values.fn, hasEmail |-> values.hasEmail])

IndexError == Raised("IndexError", <<"list index out of range">>)

\* The assignments run in order; the first one that raises ends the call.
\* release[k] raises IndexError when the row has no field k.  A ValueError
\* is re-raised as ValueError, anything else propagates unchanged.
make_dataset(release) ==
  LET n == Len(release)
      assign(title, temporal, description, publisher, distribution,
             contactPoint) ==
        IF n <= 0 THEN IndexError
        ELSE IF title.exc # "none" THEN title
        ELSE IF n <= 1 THEN IndexError
        ELSE IF temporal.exc # "none" THEN temporal
        ELSE IF n <= 2 THEN IndexError
        ELSE IF description.exc # "none" THEN description
        ELSE IF n <= 3 THEN IndexError
        ELSE IF n <= 4 THEN IndexError
        ELSE IF distribution.exc # "none" THEN distribution
        ELSE IF n <= 5 THEN IndexError
        ELSE IF n <= 6 THEN IndexError
        ELSE Returned([title |-> title.val,
                       temporal |-> temporal.val,
                       description |-> description.val,
                       publisher |-> publisher.val,
                       distribution |-> distribution.val,
                       contactPoint |-> contactPoint.val])
  IN assign(Dataset_title(At(release, 0)),
            Dataset_temporal(<<At(release, 1), At(release, 1)>>),
            Dataset_description(At(release, 2)),
            Publisher([name |-> At(release, 3)]),
            Distribution([downloadURL |-> At(release, 4)]),
            ContactPoint([fn |-> At(release, 5), hasEmail |-> At(release, 6)]))

LogRecord(level, msg) == [level |-> level, msg |-> msg]

\* The result carries, besides the outcome, the records build_event logs.
build_event(release) ==
  LET event(dataset) ==
        [summary |-> dataset.title,
         dtstart |-> dataset.temporal.start,
         url |-> dataset.distribution.downloadURL,
         organizer |-> dataset.publisher.name,
         contact |-> <<"CN=">> \o dataset.contactPoint.fn \o <<":mailto:">>
                       \o dataset.contactPoint.hasEmail,
         description |-> dataset.description]
      build(made) ==
        IF made.exc = "ValueError"
        THEN [exc |-> "ValueError", msg |-> made.msg, val |-> << >>,
              logs |-> <<LogRecord("INFO",
                           <<"Cannot build event. Invalid fields present.">>)>>]
        ELSE IF made.exc # "none"
        THEN [exc |-> made.exc, msg |-> made.msg, val |-> << >>,
              logs |-> << >>]
        ELSE [exc |-> "none", msg |-> << >>, logs |-> << >>,
              val |-> event(made.val)]
  IN build(make_dataset(release))

\* Calendar.to_ical: the calendar block holding one VEVENT block per event,
\* each with its properties in icalendar's order (SUMMARY, DTSTART, then
\* the others by name).
EventLines(ev) ==
  << <<"SUMMARY", ev.summary>>, <<"DTSTART", ev.dtstart.vDatetime>>,
     <<"CONTACT", ev.contact>>, <<"DESCRIPTION", ev.description>>,
     <<"ORGANIZER", ev.organizer>>, <<"URL", ev.url>> >>

to_ical(cal) ==
  [begin |-> "VCALENDAR",
   vevents |-> [i \in 1..Len(cal) |-> EventLines(cal[i])]]

(***************************************************************************)
(* File discovery                                                          *)
(***************************************************************************)
\* A variant that cuts at the last "." wherever it is.
splitext_any_dot(filename) ==
  LET k == LastIdx(filename, ".")
  IN IF k >= 1
     THEN <<SubSeq(filename, 1, k - 1), SubSeq(filename, k, Len(filename))>>
     ELSE <<filename, << >> >>

\* os.path.splitext on a file name: the extension runs from the last "."
\* on, unless only dots come before it.
splitext(filename) ==
  LET k == LastIdx(filename, ".")
  IN IF k >= 1 /\ \E j \in 1..(k - 1) : filename[j] # "."
     THEN <<SubSeq(filename, 1, k - 1), SubSeq(filename, k, Len(filename))>>
     ELSE <<filename, << >> >>

path_join(dir_name, filename) == dir_name \o <<"/">> \o filename

\* walked is what os.walk yields, flattened: the files in walk order, each
\* with the directory it is in.
RECURSIVE csv_paths(_)
csv_paths(walked) ==
  IF walked = << >> THEN << >>
  ELSE LET f == Head(walked)
       IN (IF splitext(f.name)[2] = <<".", "csv">>
           THEN <<path_join(f.dir, f.name)>> ELSE << >>)
          \o csv_paths(Tail(walked))

get_release_csvs(walked) ==
  LET result(found) ==
        IF found = << >>
        THEN Raised("OSError",
                    <<"There are no CSV files in the directory specified.">>)
        ELSE Returned(found)
  IN result(csv_paths(walked))

(***************************************************************************)
(* Inputs: the rows a CSV file may hold and the files a folder may hold    *)
(***************************************************************************)
Header ==
  << <<"name">>, <<"date">>, <<"desription">>, <<"agency_name">>,
     <<"url">>, <<"contact_name">>, <<"contact_email">> >>

\* The same columns in another order.
HeaderSwapped ==
  << <<"date">>, <<"name">>, <<"desription">>, <<"agency_name">>,
     <<"url">>, <<"contact_name">>, <<"contact_email">> >>

RowCensus ==
  << <<"Census Release">>, <<"2016", "-", "01", "-", "01">>,
     <<"Annual survey">>, <<"Census Bureau">>,
     <<"http:", "//", "example.gov", "/", "data.csv">>,
     <<"Jane Doe">>, <<"jane@example.gov">> >>

\* A date-time, and a URL whose path is empty.
RowJobs ==
  << <<"Jobs Report">>, <<"2016", "-", "02", "-", "10", "T", "10", ":", "30">>,
     <<"Monthly jobs">>, <<"Labor">>, <<"http:", "//", "example.gov">>,
     <<"John Roe">>, <<"john@example.gov">> >>

RowNotADate ==
  << <<"Bad Date">>, <<"not-a-date">>, <<"Quarterly">>, <<"Treasury">>,
     <<"http:", "//", "example.gov", "/", "q.csv">>,
     <<"Ann Poe">>, <<"ann@example.gov">> >>

\* 30 February: it has the shape of a date and names no day.
RowFeb30 ==
  << <<"No Such Day">>, <<"2016", "-", "02", "-", "30">>, <<"Quarterly">>,
     <<"Treasury">>, <<"http:", "//", "example.gov", "/", "q.csv">>,
     <<"Ann Poe">>, <<"ann@example.gov">> >>

RowEmpty == << >>

\* Three fields only, the date parseable.
RowShort == << <<"Short">>, <<"2017">>, <<"Three fields">> >>

\* Two fields only, the date missing (an empty text).
RowShortNoDate == << <<"Shorter">>, << >> >>

\* The network location opens a bracket and never closes it.
RowBadUrl ==
  << <<"Bad Url">>, <<"2017", "-", "10">>, <<"Yearly">>, <<"Energy">>,
     <<"http:", "//", "[", "bad">>, <<"Sam Doe">>, <<"sam@example.gov">> >>

RowNoTitle ==
  << << >>, <<"2017", "-", "01", "-", "02">>, <<"Untitled">>, <<"Energy">>,
     <<"data.csv">>, <<"Sam Doe">>, <<"sam@example.gov">> >>

RowNoDescription ==
  << <<"Undescribed">>, <<"2017">>, << >>, <<"Energy">>,
     << >>, <<"Sam Doe">>, << >> >>

\* An eighth field.
RowLong == RowCensus \o << <<"extra">> >>

RowSet ==
  {RowCensus, RowJobs, RowNotADate, RowFeb30, RowEmpty, RowShort,
   RowShortNoDate, RowBadUrl, RowNoTitle, RowNoDescription, RowLong}

SeqsUpTo(S, n) == UNION {[1..k -> S] : k \in 0..n}

\* A CSV file is empty, or holds a first row and up to MaxRows more.
CsvFiles ==
  {<< >>} \cup
  {<<first>> \o rows : first \in {Header, RowCensus},
                       rows \in SeqsUpTo(RowSet, MaxRows)}

RootDir == <<"releases">>
SubDir == <<"releases", "/", "2016">>

FileSet ==
  { [dir |-> RootDir, name |-> <<"a", ".", "csv">>,
     rows |-> <<Header, RowCensus, RowJobs>>],
    [dir |-> SubDir, name |-> <<"b", ".", "csv">>,
     rows |-> <<Header, RowNotADate, RowLong, RowShort>>],
    [dir |-> RootDir, name |-> <<"c", ".", "csv">>,
     rows |-> <<Header, RowBadUrl>>],
    [dir |-> RootDir, name |-> <<"d", ".", "csv">>,
     rows |-> <<HeaderSwapped, RowCensus>>],
    [dir |-> RootDir, name |-> <<"e", ".", "csv">>, rows |-> << >>],
    [dir |-> RootDir, name |-> <<"notes", ".", "txt">>,
     rows |-> <<Header, RowJobs>>],
    [dir |-> RootDir, name |-> <<".", "csv">>, rows |-> <<Header>>],
    [dir |-> RootDir, name |-> <<"g", ".", "CSV">>, rows |-> <<Header>>],
    [dir |-> SubDir, name |-> <<"h", ".", "csv", ".", "bak">>,
     rows |-> <<HeaderSwapped>>] }

\* os.walk is top-down: the files of the folder itself come before those of
\* its sub-folders; within one folder the order is the file system's.
Folders ==
  {w \in SeqsUpTo(FileSet, MaxFiles) :
     /\ \A i, j \in 1..Len(w) : i # j => w[i] # w[j]
     /\ \A i, j \in 1..Len(w) : (i < j) => ~(w[i].dir = SubDir /\ w[j].dir = RootDir)}

ListPath == <<"./releases.csv">>
IcalPath == <<"./releases.ical">>
TempName == <<"/tmp/tmpmerged">>

(***************************************************************************)
(* State                                                                   *)
(***************************************************************************)
VARIABLES
  pc,              \* where main is
  args,            \* the parsed command line
  list_file,       \* the rows of the CSV file at args.list_path
  folder,          \* the files os.walk finds under args.list_path
  log,             \* the records handed to the logger, with their levels,
                   \* in order (which of them the logger shows is decided
                   \* by the level set_logging gives it)
  handles,         \* the open file handles
  opened,          \* the paths opened for reading so far, in order
  cur,             \* get_release_list: the path being read
  ret,             \* get_release_list: who called
  csvlist,         \* get_release_list: the rows it returns
  files_to_merge,  \* merge_folder: the discovered paths
  fi,              \* merge_folder: position in files_to_merge
  headers,         \* merge_folder: the expected header, or None
  merged_releases, \* merge_folder: the merged table
  tmp_ops,         \* what was done to the temporary merged file, in order
  releases,        \* main: the rows handed to write_ical
  release_cal,     \* write_ical: the Calendar Document
  ri,              \* write_ical: position in releases
  ical_ops,        \* what was done to the output calendar file, in order
  err              \* the exception that ended the run, if any

vars ==
  <<pc, args, list_file, folder, log, handles, opened, cur, ret,
    csvlist, files_to_merge, fi, headers, merged_releases, tmp_ops, releases,
    release_cal, ri, ical_ops, err>>

NoError == [exc |-> "none", msg |-> << >>]
None == [none |-> TRUE, v |-> << >>]
Some(v) == [none |-> FALSE, v |-> v]

Handle(path, mode) == [path |-> path, mode |-> mode]

\* The rows csv.reader yields for the file at a path.
Content(path) ==
  IF path = ListPath THEN list_file
  ELSE LET f == CHOOSE f \in {folder[i] : i \in 1..Len(folder)} :
                  path_join(f.dir, f.name) = path
       IN f.rows

Init ==
  /\ pc = "main"
  /\ args \in [merge_folder : BOOLEAN]
  /\ IF args.merge_folder
     THEN list_file = << >> /\ folder \in Folders
     ELSE list_file \in CsvFiles /\ folder = << >>
  /\ log = << >>
  /\ handles = {}
  /\ opened = << >>
  /\ cur = << >>
  /\ ret = "none"
  /\ csvlist = << >>
  /\ files_to_merge = << >>
  /\ fi = 0
  /\ headers = None
  /\ merged_releases = << >>
  /\ tmp_ops = << >>
  /\ releases = << >>
  /\ release_cal = << >>
  /\ ri = 0
  /\ ical_ops = << >>
  /\ err = NoError

(***************************************************************************)
(* main                                                                    *)
(***************************************************************************)
\* An exception nothing catches ends the run.
Abort(e) ==
  /\ pc' = "aborted"
  /\ err' = [exc |-> e.exc, msg |-> e.msg]

\* parse_arguments and the branch on --merge_folder.  In merge
\* mode NamedTemporaryFile creates the temporary file and keeps it open.
Main_Start ==
  /\ pc = "main"
  /\ IF args.merge_folder
     THEN /\ tmp_ops' = Append(tmp_ops, [op |-> "create"])
          /\ handles' = handles \cup {Handle(TempName, "w+b")}
          /\ pc' = "get_release_csvs"
          /\ UNCHANGED <<cur, ret>>
     ELSE /\ cur' = ListPath
          /\ ret' = "main"
          /\ pc' = "open_csv"
          /\ UNCHANGED <<tmp_ops, handles>>
  /\ UNCHANGED <<args, list_file, folder, log, opened, csvlist, files_to_merge,
                 fi, headers, merged_releases, releases, release_cal, ri,
                 ical_ops, err>>

\* merge_folder up to its loop: the discovery, failing when nothing is found.
Merge_Discover ==
  /\ pc = "get_release_csvs"
  /\ LET discovered(found) ==
           IF found.exc # "none"
           THEN /\ Abort(found)
                /\ UNCHANGED <<files_to_merge, fi, cur, ret>>
           ELSE /\ files_to_merge' = found.val
                /\ fi' = 1
                /\ cur' = found.val[1]
                /\ ret' = "merge"
                /\ pc' = "open_csv"
                /\ UNCHANGED err
     IN discovered(get_release_csvs(folder))
  /\ merged_releases' = << >>
  /\ headers' = None
  /\ UNCHANGED <<args, list_file, folder, log, handles, opened,
                 csvlist, tmp_ops, releases, release_cal, ri, ical_ops>>

\* get_release_list: open(list_path, 'r').
ReleaseList_Open ==
  /\ pc = "open_csv"
  /\ handles' = handles \cup {Handle(cur, "r")}
  /\ opened' = Append(opened, cur)
  /\ pc' = "read_csv"
  /\ UNCHANGED <<args, list_file, folder, log, cur, ret, csvlist,
                 files_to_merge, fi, headers, merged_releases, tmp_ops,
                 releases, release_cal, ri, ical_ops, err>>

\* get_release_list: list(reader), then the with block closes the file.
ReleaseList_Read ==
  /\ pc = "read_csv"
  /\ csvlist' = Content(cur)
  /\ handles' = handles \ {Handle(cur, "r")}
  /\ pc' = IF ret = "merge" THEN "merge_file" ELSE "main_slice"
  /\ UNCHANGED <<args, list_file, folder, log, opened, cur, ret,
                 files_to_merge, fi, headers, merged_releases, tmp_ops,
                 releases, release_cal, ri, ical_ops, err>>

\* A variant that accepts the same fields in any order.
headers_match_any_order(row, expected) ==
  {row[i] : i \in 1..Len(row)} = {expected[i] : i \in 1..Len(expected)}

\* rel_list[0] == headers: two lists are equal when they hold equal fields
\* in the same order.
headers_match(row, expected) == row = expected

\* One turn of merge_folder's loop, after the file was read.  rel_list[0]
\* raises IndexError on a file without rows.  += on a list extends it by the
\* elements of its right side: the header's fields, then the data rows.
Merge_File ==
  /\ pc = "merge_file"
  /\ IF Len(csvlist) = 0
     THEN /\ Abort(IndexError)
          /\ UNCHANGED <<headers, merged_releases, fi, cur>>
     ELSE LET expected == IF headers.none THEN At(csvlist, 0) ELSE headers.v
              started == IF headers.none
                         THEN merged_releases \o expected
                         ELSE merged_releases
          IN IF headers_match(At(csvlist, 0), expected)
             THEN /\ headers' = Some(expected)
                  /\ merged_releases' = started \o Slice1(csvlist)
                  /\ IF fi < Len(files_to_merge)
                     THEN /\ fi' = fi + 1
                          /\ cur' = files_to_merge[fi + 1]
                          /\ pc' = "open_csv"
                     ELSE /\ pc' = "write_csv_file"
                          /\ UNCHANGED <<fi, cur>>
                  /\ UNCHANGED err
             ELSE /\ Abort(Raised("ValueError",
                            <<"Error at file ">> \o cur
                              \o <<"CSV's have different headers ",
                                   "Cannot merge inconsistant CSV's">>))
                  /\ UNCHANGED <<headers, merged_releases, fi, cur>>
  /\ UNCHANGED <<args, list_file, folder, log, handles, opened, ret,
                 csvlist, files_to_merge, tmp_ops, releases, release_cal, ri,
                 ical_ops>>

\* write_csv_file: open(csv_path, 'w+') truncates the merged file.
WriteCsv_Open ==
  /\ pc = "write_csv_file"
  /\ tmp_ops' = Append(tmp_ops, [op |-> "truncate"])
  /\ handles' = handles \cup {Handle(TempName, "w+")}
  /\ pc' = "write_csv_rows"
  /\ UNCHANGED <<args, list_file, folder, log, opened, cur, ret,
                 csvlist, files_to_merge, fi, headers, merged_releases,
                 releases, release_cal, ri, ical_ops, err>>

\* write_csv_file: csvw.writerow is called with seven arguments and takes
\* one, so it raises TypeError before any row is written; the with block
\* closes the file and the exception ends the run.
WriteCsv_Rows ==
  /\ pc = "write_csv_rows"
  /\ handles' = handles \ {Handle(TempName, "w+")}
  /\ Abort(Raised("TypeError",
                  <<"writer.writerow() takes exactly one argument (7 given)">>))
  /\ UNCHANGED <<args, list_file, folder, log, opened, cur, ret,
                 csvlist, files_to_merge, fi, headers, merged_releases,
                 tmp_ops, releases, release_cal, ri, ical_ops>>

\* main, single-file branch: the first row is dropped.
Main_Slice ==
  /\ pc = "main_slice"
  /\ releases' = Slice1(csvlist)
  /\ pc' = "write_ical"
  /\ UNCHANGED <<args, list_file, folder, log, handles, opened, cur,
                 ret, csvlist, files_to_merge, fi, headers, merged_releases,
                 tmp_ops, release_cal, ri, ical_ops, err>>

(***************************************************************************)
(* write_ical                                                              *)
(***************************************************************************)
\* release_cal = Calendar()
WriteIcal_New ==
  /\ pc = "write_ical"
  /\ release_cal' = << >>
  /\ ri' = 1
  /\ pc' = "rows"
  /\ UNCHANGED <<args, list_file, folder, log, handles, opened, cur,
                 ret, csvlist, files_to_merge, fi, headers, merged_releases,
                 tmp_ops, releases, ical_ops, err>>

\* A variant that puts the new event first.
add_component_first(cal, event) == <<event>> \o cal

\* Calendar.add_component: the event goes last.
add_component(cal, event) == Append(cal, event)

\* What one turn of the loop does to the calendar and the log, and the
\* exception it lets through, if any: only ValueError is caught.
write_ical_row(cal, release) ==
  LET turn(built) ==
        IF built.exc = "none"
        THEN [cal |-> add_component(cal, built.val), logs |-> built.logs,
              exc |-> NoError]
        ELSE IF built.exc = "ValueError"
        THEN [cal |-> cal,
              logs |-> built.logs \o
                       <<LogRecord("DEBUG", built.msg),
                         LogRecord("WARNING",
                                   <<"Release event ">> \o At(release, 0)
                                     \o <<" could not be added ",
                                          "to the ical event.">>)>>,
              exc |-> NoError]
        ELSE [cal |-> cal, logs |-> built.logs,
              exc |-> [exc |-> built.exc, msg |-> built.msg]]
  IN turn(build_event(release))

WriteIcal_Row ==
  /\ pc = "rows"
  /\ ri <= Len(releases)
  /\ LET after(turn) ==
           /\ release_cal' = turn.cal
           /\ log' = log \o turn.logs
           /\ IF turn.exc.exc = "none"
              THEN /\ ri' = ri + 1
                   /\ UNCHANGED <<pc, err>>
              ELSE /\ Abort(turn.exc)
                   /\ UNCHANGED ri
     IN after(write_ical_row(release_cal, releases[ri]))
  /\ UNCHANGED <<args, list_file, folder, handles, opened, cur, ret,
                 csvlist, files_to_merge, fi, headers, merged_releases,
                 tmp_ops, releases, ical_ops>>

\* open(ical_path, "wb+") truncates the output file.
WriteIcal_Open ==
  /\ pc = "rows"
  /\ ri > Len(releases)
  /\ ical_ops' = Append(ical_ops, [op |-> "truncate", data |-> to_ical(<< >>)])
  /\ handles' = handles \cup {Handle(IcalPath, "wb+")}
  /\ pc' = "ical_write"
  /\ UNCHANGED <<args, list_file, folder, log, opened, cur, ret,
                 csvlist, files_to_merge, fi, headers, merged_releases,
                 tmp_ops, releases, release_cal, ri, err>>

\* ical_file.write(release_cal.to_ical()), then the with block closes it.
WriteIcal_Write ==
  /\ pc = "ical_write"
  /\ ical_ops' = Append(ical_ops, [op |-> "write", data |-> to_ical(release_cal)])
  /\ handles' = handles \ {Handle(IcalPath, "wb+")}
  /\ pc' = "main_end"
  /\ UNCHANGED <<args, list_file, folder, log, opened, cur, ret,
                 csvlist, files_to_merge, fi, headers, merged_releases,
                 tmp_ops, releases, release_cal, ri, err>>

\* main's last statement: the temporary file, if there is one, is closed.
Main_End ==
  /\ pc = "main_end"
  /\ handles' = IF args.merge_folder
                THEN handles \ {Handle(TempName, "w+b")}
                ELSE handles
  /\ pc' = "done"
  /\ UNCHANGED <<args, list_file, folder, log, opened, cur, ret,
                 csvlist, files_to_merge, fi, headers, merged_releases,
                 tmp_ops, releases, release_cal, ri, ical_ops, err>>

Next ==
  \/ Main_Start
  \/ Merge_Discover
  \/ ReleaseList_Open
  \/ ReleaseList_Read
  \/ Merge_File
  \/ WriteCsv_Open
  \/ WriteCsv_Rows
  \/ Main_Slice
  \/ WriteIcal_New
  \/ WriteIcal_Row
  \/ WriteIcal_Open
  \/ WriteIcal_Write
  \/ Main_End

Spec == Init /\ [][Next]_vars

(***************************************************************************)
(* Vocabulary of the properties                                            *)
(***************************************************************************)
SingleFile == ~args.merge_folder
MergeMode == args.merge_folder

\* write_ical has started (single-file runs fail nowhere else).
InWriteIcal ==
  SingleFile /\ pc \in {"rows", "ical_write", "main_end", "done", "aborted"}

\* The rows write_ical has attempted so far; the row that ended the run
\* counts as attempted.
Attempted ==
  IF pc = "rows" THEN SubSeq(releases, 1, ri - 1)
  ELSE IF pc = "aborted" THEN SubSeq(releases, 1, ri)
  ELSE releases

\* The row has a date field and it does not parse.
BadDate(row) == Len(row) >= 2 /\ parse_date(At(row, 1)).exc = "ParseError"
GoodDate(row) == Len(row) >= 2 /\ parse_date(At(row, 1)).exc = "none"
UrlSplits(row) == Len(row) >= 5 /\ urlparse(At(row, 4)).exc = "none"

\* The event the specification describes for a row, field by field.
ExpectedEvent(row) ==
  [summary |-> At(row, 0),
   dtstart |-> vDatetime(parse_date(At(row, 1)).val),
   url |-> At(row, 4),
   organizer |-> At(row, 3),
   contact |-> <<"CN=">> \o At(row, 5) \o <<":mailto:">> \o At(row, 6),
   description |-> At(row, 2)]

\* write_ical's loop as a function of the rows: the calendar it builds and
\* the exception that stops it, if any.
RECURSIVE RunRows(_, _)
RunRows(cal, rows) ==
  IF rows = << >> THEN [cal |-> cal, exc |-> NoError]
  ELSE LET step(turn) ==
             IF turn.exc.exc # "none" THEN [cal |-> turn.cal, exc |-> turn.exc]
             ELSE RunRows(turn.cal, Tail(rows))
       IN step(write_ical_row(cal, Head(rows)))

Writes(ops) == {i \in 1..Len(ops) : ops[i].op = "write"}

(***************************************************************************)
(* C1: a row whose date does not parse fails validation with ValueError,   *)
(* adds no event, leaves a warning record naming its title, and the rows   *)
(* after it are processed as if it were absent: calendar and outcome equal *)
(* those of the same rows without the bad-date rows.                       *)
(***************************************************************************)
C1_BadDateRowSkipped ==
  InWriteIcal =>
    LET NotBad(r) == ~BadDate(r)
        agrees(done, ref) ==
          /\ \A k \in 1..Len(done) :
               BadDate(done[k]) =>
                 /\ make_dataset(done[k]).exc = "ValueError"
                 /\ \E i \in 1..Len(log) :
                      /\ log[i].level = "WARNING"
                      /\ Contains(log[i].msg, At(done[k], 0))
          /\ release_cal = ref.cal
          /\ err = ref.exc
    IN agrees(Attempted, RunRows(<< >>, SelectSeq(Attempted, NotBad)))

C1_Witness ==
  /\ pc = "done"
  /\ \E k \in 1..(Len(releases) - 1) :
       /\ BadDate(releases[k])
       /\ Len(releases[k][1]) > 0
       /\ build_event(releases[k + 1]).exc = "none"
  /\ Len(release_cal) >= 1

(***************************************************************************)
(* C2 (as claimed): a row with fewer than 7 fields never ends the run.     *)
(***************************************************************************)
C2_ShortRowNeverAborts ==
  ~(InWriteIcal /\ pc = "aborted" /\ Len(releases[ri]) < 7)

(***************************************************************************)
(* C3: what write_ical serializes holds one event per row that validated   *)
(* and projected, none for any other row, in the order of the rows.        *)
(***************************************************************************)
C3_OneEventPerGoodRowInOrder ==
  \A i \in Writes(ical_ops) :
    LET Ok(r) == build_event(r).exc = "none"
        holds(good) ==
          /\ Len(release_cal) = Len(good)
          /\ \A k \in 1..Len(good) : release_cal[k] = ExpectedEvent(good[k])
          /\ Len(ical_ops[i].data.vevents) = Len(good)
          /\ \A k \in 1..Len(good) :
               ical_ops[i].data.vevents[k] = EventLines(ExpectedEvent(good[k]))
    IN holds(SelectSeq(releases, Ok))

C3_Witness ==
  /\ pc = "done"
  /\ Len(release_cal) = 2
  /\ Len(releases) = 3
  /\ release_cal[1] # release_cal[2]
  /\ build_event(releases[2]).exc = "ValueError"

(***************************************************************************)
(* C4 (as claimed): every 7-field row with a parseable date gives an event *)
(* with summary = field 0, start = the parsed field 1, description =       *)
(* field 2, organizer = field 3, URL = field 4 and a contact line holding  *)
(* field 5 and field 6 as a mailto address.                                *)
(***************************************************************************)
EventCopiesRow(ev, row) ==
  /\ ev.summary = At(row, 0)
  /\ ev.dtstart = vDatetime(parse_date(At(row, 1)).val)
  /\ ev.description = At(row, 2)
  /\ ev.organizer = At(row, 3)
  /\ ev.url = At(row, 4)
  /\ Contains(ev.contact, At(row, 5))
  /\ Contains(ev.contact, <<":mailto:">> \o At(row, 6))

C4_EveryDatedRowBuilds ==
  (InWriteIcal /\ pc = "rows" /\ ri > 1) =>
    LET copied(row) ==
          (Len(row) = 7 /\ GoodDate(row)) =>
            /\ build_event(row).exc = "none"
            /\ release_cal # << >>
            /\ EventCopiesRow(release_cal[Len(release_cal)], row)
    IN copied(releases[ri - 1])

(***************************************************************************)
(* C4 (amended): every 7-field row with a parseable date and a URL field   *)
(* that urlparse splits gives that event, appended to the calendar.        *)
(***************************************************************************)
C4_DatedRowWithSplittableUrlBuilds ==
  (InWriteIcal /\ pc = "rows" /\ ri > 1) =>
    LET copied(row) ==
          (Len(row) = 7 /\ GoodDate(row) /\ UrlSplits(row)) =>
            /\ build_event(row).exc = "none"
            /\ release_cal # << >>
            /\ EventCopiesRow(release_cal[Len(release_cal)], row)
    IN copied(releases[ri - 1])

C4_Witness ==
  /\ pc = "rows"
  /\ ri = 3
  /\ releases[2] = RowJobs
  /\ release_cal[Len(release_cal)].summary = <<"Jobs Report">>
  /\ release_cal[Len(release_cal)].dtstart.vDatetime.hour = 10
  /\ release_cal[Len(release_cal)].contact =
       <<"CN=", "John Roe", ":mailto:", "john@example.gov">>

(***************************************************************************)
(* C5 (as claimed): the calendar starts empty, no write happens before     *)
(* every row was attempted, and every run of write_ical that has ended     *)
(* has written the output file exactly once.                               *)
(***************************************************************************)
C5_SerializedExactlyOnce ==
  InWriteIcal =>
    /\ (pc = "rows" /\ ri = 1) => release_cal = << >>
    /\ Writes(ical_ops) # {} => Len(Attempted) = Len(releases)
    /\ pc \in {"done", "aborted"} => Cardinality(Writes(ical_ops)) = 1

(***************************************************************************)
(* Vocabulary of the merge properties                                      *)
(***************************************************************************)
\* The name ends in ".csv" and something other than dots comes before.
HasCsvExtension(f) ==
  /\ Len(f.name) >= 3
  /\ f.name[Len(f.name) - 1] = "."
  /\ f.name[Len(f.name)] = "csv"
  /\ \E j \in 1..(Len(f.name) - 2) : f.name[j] # "."

FirstRow(path) == At(Content(path), 0)

\* Every discovered file has rows and the first file's header.
AllSameHeader ==
  \A k \in 1..Len(files_to_merge) :
    /\ Content(files_to_merge[k]) # << >>
    /\ FirstRow(files_to_merge[k]) = FirstRow(files_to_merge[1])

RECURSIVE DataRows(_)
DataRows(paths) ==
  IF paths = << >> THEN << >>
  ELSE Slice1(Content(Head(paths))) \o DataRows(Tail(paths))

IsWriteRow(o) == o.op = "writerow"
OnlyCreated(ops) == ops = <<[op |-> "create"]>>

\* The files merge_folder's loop has taken in without failing.
MergePassed ==
  IF pc \in {"open_csv", "read_csv", "merge_file"} THEN fi - 1
  ELSE IF pc \in {"write_csv_file", "write_csv_rows"} THEN Len(files_to_merge)
  ELSE IF pc = "aborted" /\ err.exc = "TypeError" THEN Len(files_to_merge)
  ELSE IF pc = "aborted" /\ err.exc \in {"ValueError", "IndexError"} THEN fi - 1
  ELSE 0

(***************************************************************************)
(* C6 (as claimed): when every discovered CSV file has the same header,    *)
(* merge_folder succeeds and the merged file holds that header once and    *)
(* then all data rows, in discovery order and then in-file order.          *)
(***************************************************************************)
C6_MergeWritesHeaderThenRows ==
  (MergeMode /\ files_to_merge # << >> /\ AllSameHeader
     /\ pc \in {"aborted", "done"}) =>
    LET holds(written, expected) ==
          /\ err.exc = "none"
          /\ Len(written) = Len(expected)
          /\ \A k \in 1..Len(expected) : written[k].row = expected[k]
    IN holds(SelectSeq(tmp_ops, IsWriteRow),
             <<FirstRow(files_to_merge[1])>> \o DataRows(files_to_merge))

(***************************************************************************)
(* C7: the first file read sets the expected header; no later file with a  *)
(* different header is taken in; the run stops at the first such file with *)
(* a ValueError naming its path, no further file is read, and nothing has  *)
(* been done to the merged file by then beyond its creation by main.       *)
(***************************************************************************)
C7_HeaderMismatchFailsBeforeWrite ==
  (MergeMode /\ files_to_merge # << >>) =>
    /\ ~headers.none => headers.v = FirstRow(files_to_merge[1])
    /\ \A k \in 1..MergePassed : FirstRow(files_to_merge[k]) = headers.v
    /\ (pc = "aborted" /\ err.exc = "ValueError") =>
         /\ fi > 1
         /\ cur = files_to_merge[fi]
         /\ FirstRow(cur) # headers.v
         /\ Contains(err.msg, cur)
         /\ opened = SubSeq(files_to_merge, 1, fi)
         /\ OnlyCreated(tmp_ops)

C7_Witness ==
  /\ MergeMode
  /\ pc = "aborted"
  /\ err.exc = "ValueError"
  /\ fi = 2
  /\ Len(files_to_merge) = 3
  /\ FirstRow(cur) = HeaderSwapped
  /\ headers.v = Header

(***************************************************************************)
(* C8: get_release_csvs returns, in walk order, the paths of exactly the   *)
(* files under the folder whose extension is ".csv"; when there is none it *)
(* raises OSError and merge_folder ends having read no file and done       *)
(* nothing to the merged file.                                             *)
(***************************************************************************)
C8_DiscoversExactlyCsvFiles ==
  (MergeMode /\ pc \notin {"main", "get_release_csvs"}) =>
    LET found(want) ==
          IF want = << >>
          THEN /\ pc = "aborted"
               /\ err.exc = "OSError"
               /\ files_to_merge = << >>
               /\ opened = << >>
               /\ OnlyCreated(tmp_ops)
          ELSE /\ err.exc # "OSError"
               /\ files_to_merge =
                    [k \in 1..Len(want) |->
                       want[k].dir \o <<"/">> \o want[k].name]
    IN found(SelectSeq(folder, HasCsvExtension))

C8_Witness ==
  /\ MergeMode
  /\ pc = "aborted"
  /\ err.exc = "OSError"
  /\ Len(folder) = 3
  /\ \E k \in 1..Len(folder) : folder[k].name = <<".", "csv">>

(***************************************************************************)
(* C9 (as claimed): in merge mode, when the folder can be merged, the run  *)
(* goes on to convert the merged rows and ends with the calendar file      *)
(* written from them.                                                      *)
(***************************************************************************)
C9_MergeThenConvert ==
  (MergeMode /\ files_to_merge # << >> /\ AllSameHeader
     /\ pc \in {"aborted", "done"}) =>
    /\ pc = "done"
    /\ Cardinality(Writes(ical_ops)) = 1
    /\ release_cal = RunRows(<< >>, DataRows(files_to_merge)).cal

(***************************************************************************)
(* C10 (as claimed): setting the distribution succeeds for every text in   *)
(* the URL field, so every row that is valid otherwise yields an event     *)
(* whose URL is that text.                                                 *)
(***************************************************************************)
OtherwiseValid(row) == Len(row) >= 7 /\ GoodDate(row)
EventUrls(cal) == [k \in 1..Len(cal) |-> cal[k].url]
RowUrls(rows) == [k \in 1..Len(rows) |-> At(rows[k], 4)]

C10_AnyUrlAccepted ==
  (InWriteIcal /\ pc = "ical_write") =>
    /\ \A k \in 1..Len(releases) :
         Len(releases[k]) >= 5 =>
           Distribution([downloadURL |-> At(releases[k], 4)]).exc = "none"
    /\ EventUrls(release_cal) = RowUrls(SelectSeq(releases, OtherwiseValid))

(***************************************************************************)
(* C10 (amended): setting the distribution succeeds for every text that    *)
(* urlparse splits, an empty path included, and every row that is valid    *)
(* otherwise and has such a URL yields an event whose URL is that text.    *)
(***************************************************************************)
C10_SplittableUrlAccepted ==
  (InWriteIcal /\ pc = "ical_write") =>
    LET Splittable(row) == OtherwiseValid(row) /\ UrlSplits(row)
    IN /\ \A k \in 1..Len(releases) :
            UrlSplits(releases[k]) =>
              Distribution([downloadURL |-> At(releases[k], 4)]).exc = "none"
       /\ EventUrls(release_cal) = RowUrls(SelectSeq(releases, Splittable))

C10_Witness ==
  /\ pc = "ical_write"
  /\ Len(release_cal) = 2
  /\ release_cal[1].url = <<"http:", "//", "example.gov">>
  /\ release_cal[2].url = << >>

(***************************************************************************)
(* C11 (as claimed): every record make_dataset returns has a non-empty     *)
(* title and a non-empty description, and no event of the calendar comes   *)
(* from a row whose title or description is the empty text.                *)
(***************************************************************************)
C11_TitleAndDescriptionNonEmpty ==
  InWriteIcal =>
    /\ \A k \in 1..Len(Attempted) :
         LET nonempty(made) ==
               made.exc = "none" =>
                 (made.val.title # << >> /\ made.val.description # << >>)
         IN nonempty(make_dataset(Attempted[k]))
    /\ \A k \in 1..Len(release_cal) :
         release_cal[k].summary # << >> /\ release_cal[k].description # << >>

(***************************************************************************)
(* C11 (amended): the title and description of every record make_dataset   *)
(* returns are the row's fields 0 and 2 as they are, empty or not: a row   *)
(* whose title or description is the empty text passes validation like any *)
(* other and adds its event to the calendar.                               *)
(***************************************************************************)
EventTitles(cal) == [k \in 1..Len(cal) |-> <<cal[k].summary, cal[k].description>>]
RowTitles(rows) == [k \in 1..Len(rows) |-> <<At(rows[k], 0), At(rows[k], 2)>>]

C11_EmptyTitleAndDescriptionPass ==
  (InWriteIcal /\ pc = "ical_write") =>
    LET Accepted(row) == OtherwiseValid(row) /\ UrlSplits(row)
    IN /\ \A k \in 1..Len(releases) :
            Accepted(releases[k]) =>
              LET kept(made) ==
                    /\ made.exc = "none"
                    /\ made.val.title = At(releases[k], 0)
                    /\ made.val.description = At(releases[k], 2)
              IN kept(make_dataset(releases[k]))
       /\ EventTitles(release_cal) = RowTitles(SelectSeq(releases, Accepted))

C11_Witness ==
  /\ pc = "ical_write"
  /\ Len(release_cal) = 2
  /\ release_cal[1].summary = << >>
  /\ release_cal[1].description # << >>
  /\ release_cal[2].summary # << >>
  /\ release_cal[2].description = << >>

(***************************************************************************)
(* C12: at every point of a run at most one file handle is open, and the   *)
(* handle of the temporary merged file is not open while merge_folder      *)
(* reads the folder's files, while write_csv_file writes the merged file,  *)
(* or while write_ical runs.                                               *)
(***************************************************************************)
C12_AtMostOneHandleOpen ==
  /\ Cardinality(handles) <= 1
  /\ pc \in {"open_csv", "read_csv", "merge_file", "write_csv_file",
             "write_csv_rows", "write_ical", "rows", "ical_write"} =>
       Handle(TempName, "w+b") \notin handles

(***************************************************************************)
(* C13: in single-file mode get_release_list returns every row of the file *)
(* as it is, the header included, and main drops the first of them before  *)
(* conversion: write_ical is handed the rows after the first in file       *)
(* order, and once its loop is through, the events and the skipped-row     *)
(* diagnostics are those of the rows after the first, one per row and in   *)
(* order, so the first row has produced neither.                           *)
(***************************************************************************)
IsWarning(rec) == rec.level = "WARNING"
SkippedDiagnostic(row) ==
  LogRecord("WARNING", <<"Release event ">> \o At(row, 0)
                         \o <<" could not be added ", "to the ical event.">>)

C13_HeaderRowDropped ==
  LET rest == SubSeq(list_file, 2, Len(list_file))
      Ok(r) == build_event(r).exc = "none"
      Skipped(r) == build_event(r).exc = "ValueError"
      outcome(good, bad, warned) ==
        /\ Len(good) + Len(bad) = Len(rest)
        /\ Len(release_cal) = Len(good)
        /\ \A k \in 1..Len(good) : release_cal[k] = ExpectedEvent(good[k])
        /\ Len(warned) = Len(bad)
        /\ \A k \in 1..Len(bad) : warned[k] = SkippedDiagnostic(bad[k])
  IN /\ (SingleFile /\ pc = "main_slice") => csvlist = list_file
     /\ (SingleFile /\ pc = "write_ical") =>
          (csvlist = list_file /\ releases = rest /\ log = << >>)
     /\ InWriteIcal =>
          /\ csvlist = list_file
          /\ releases = rest
          /\ Attempted = SubSeq(rest, 1, Len(Attempted))
     /\ (SingleFile /\ pc \in {"ical_write", "main_end", "done"}) =>
          outcome(SelectSeq(rest, Ok), SelectSeq(rest, Skipped),
                  SelectSeq(log, IsWarning))

C13_Witness ==
  /\ SingleFile
  /\ pc = "done"
  /\ Len(list_file) = 3
  /\ list_file[1] = RowCensus
  /\ list_file[2] = RowNotADate
  /\ list_file[3] = RowCensus
  /\ Len(release_cal) = 1
  /\ Len(SelectSeq(log, IsWarning)) = 1

====
